---- MODULE Spec2Model ----
(***************************************************************************)
(* Wave tables and their search, after src/heterodyne.py and               *)
(* src/giant_switch.py.                                                    *)
(*                                                                         *)
(* Spec       one call of binsearch_v2(wave, t), one action per branch of  *)
(*            the loop body.                                               *)
(* BuildSpec  one call of a table builder (acos_v8, asin_v7 or             *)
(*            giant_switch.acos), one action per loop iteration.           *)
(*                                                                         *)
(* Phases are integers: a search table holds ticks (the harness's          *)
(* int(we.t*period)), a built table holds phases in units of 1/Unit of a   *)
(* cycle.  math.acos and math.asin are not evaluated: each directly        *)
(* computed phase is any value of the function's range that is not below   *)
(* the previous one (the functions are monotonic, rounding may tie).       *)
(***************************************************************************)
EXTENDS Integers, Sequences, FiniteSets, TLC

\* ---------------------------------------------------------------- bounds
MaxLen == 6          \* longest table searched
MaxPhase == 2        \* largest tick in a searched table
MaxRes == 12         \* largest resolution built
NegRes == 2          \* resolutions down to -NegRes are built
Quarter == 2         \* phase units in a quarter cycle

Half == 2 * Quarter
Unit == 4 * Quarter

VARIABLES
  \* binsearch_v2
  wave,      \* the table: a sequence of phases (we.t), stored 1-based
  t,         \* the query
  l, d, i,   \* the locals of binsearch_v2
  pc,        \* "call", "loop", "return", "done", "raised", "idle"
  iters,     \* executions of the loop body so far
  reads,     \* the indices wave[...] has been subscripted with
  result,    \* the returned (i, wave[i]), or NoResult
  err,       \* the exception raised, or "none"
  \* builders
  builder,     \* "acos_v8", "asin_v7", "acos" (giant_switch), "none"
  resolution,  \* the argument
  n, x,        \* the locals n and x
  table,       \* the local wave: a sequence of entries, stored 1-based
  bpc,         \* "call", "first", "mirror", "mirror2", "done", "raised", "idle"
  berr         \* the exception raised, or "none"

svars == <<wave, t, l, d, i, pc, iters, reads, result, err>>
bvars == <<builder, resolution, n, x, table, bpc, berr>>
vars == <<wave, t, l, d, i, pc, iters, reads, result, err,
          builder, resolution, n, x, table, bpc, berr>>

\* ------------------------------------------------------------- helpers
RECURSIVE Pow2(_)
Pow2(k) == IF k <= 0 THEN 1 ELSE 2 * Pow2(k - 1)

\* the least k with 2**k >= len, for len >= 1
RECURSIVE CeilLog2From(_, _)
CeilLog2From(len, k) == IF Pow2(k) >= len THEN k ELSE CeilLog2From(len, k + 1)

\* math.log(l, 2.) is a quotient of two doubles.  Below 2**31 it is exact
\* enough for the ceiling at every l but 2**29, where it is
\* 29.000000000000004 and the ceiling is 30.
LogOvershoot == {536870912}

CeilLog2(len) == CeilLog2From(len, 0) + (IF len \in LogOvershoot THEN 1 ELSE 0)

\* d = 2**int(math.ceil(math.log(l, 2.)))
StartStep(len) == Pow2(CeilLog2(len))

\* a variant that steps d down by one: d -= 1
Decrement(v) == v - 1

\* d >>= 1
ShiftRight1(v) == v \div 2

\* Python's w[k]: a negative k counts from the end
At(w, k) == IF k >= 0 THEN w[k + 1] ELSE w[Len(w) + k + 1]

InRange(w, k) == (0 - Len(w)) <= k /\ k < Len(w)

\* a variant that accepts any entry at or above t: t <= wave[i].t
FoundAnyBound(w, q, k) == q <= At(w, k)

\* (t <= wave[i].t) and (i==0 or (wave[i-1].t < t)), evaluated left to right
Found(w, q, k) == q <= At(w, k) /\ (k = 0 \/ At(w, k - 1) < q)

\* a variant that steps right on a tie too: wave[i].t <= t
GoesRightOrEqual(w, q, k) == At(w, k) <= q

\* if wave[i].t < t: step right, else step left
GoesRight(w, q, k) == At(w, k) < q

\* the subscripts line 18 evaluates: wave[i], then wave[i-1] unless the
\* conjunction or the disjunction has been decided before it
ReadsOfTest(w, q, k) == {k} \cup (IF q <= At(w, k) /\ k # 0 THEN {k - 1} ELSE {})

NoResult == [i |-> 0 - 1, we |-> 0 - 1]

Tables == UNION {[1..len -> 0..MaxPhase] : len \in 0..MaxLen}

Queries == 0..(MaxPhase + 1)

\* ------------------------------------------------------- binsearch_v2
SearchIdle ==
  /\ wave = <<>> /\ t = 0 /\ l = 0 /\ d = 0 /\ i = 0 /\ pc = "idle"
  /\ iters = 0 /\ reads = {} /\ result = NoResult /\ err = "none"

BuildIdle ==
  /\ builder = "none" /\ resolution = 0 /\ n = 0 /\ x = 0
  /\ table = <<>> /\ bpc = "idle" /\ berr = "none"

SearchInit ==
  /\ wave \in Tables
  /\ t \in Queries
  /\ l = 0 /\ d = 0 /\ i = 0
  /\ pc = "call"
  /\ iters = 0
  /\ reads = {}
  /\ result = NoResult
  /\ err = "none"

\* a variant that takes the logarithm of max(l, 1) and so enters the loop
EnterEmptyClamped ==
  /\ pc = "call"
  /\ Len(wave) = 0
  /\ l' = 0
  /\ d' = 1
  /\ i' = 1
  /\ pc' = "loop"
  /\ UNCHANGED <<wave, t, iters, reads, result, err>>
  /\ UNCHANGED bvars

\* lines 13-14 on an empty table: math.log(0, 2.) raises ValueError
EnterEmpty ==
  /\ pc = "call"
  /\ Len(wave) = 0
  /\ pc' = "raised"
  /\ err' = "ValueError"
  /\ UNCHANGED <<wave, t, l, d, i, iters, reads, result>>
  /\ UNCHANGED bvars

\* lines 13-15
Enter ==
  /\ pc = "call"
  /\ Len(wave) > 0
  /\ l' = Len(wave)
  /\ d' = StartStep(Len(wave))
  /\ i' = StartStep(Len(wave))
  /\ pc' = "loop"
  /\ UNCHANGED <<wave, t, iters, reads, result, err>>
  /\ UNCHANGED bvars

\* line 18: the bound is found, break
LoopBreak ==
  /\ pc = "loop" /\ 0 < d
  /\ i < l
  /\ Found(wave, t, i)
  /\ reads' = reads \cup ReadsOfTest(wave, t, i)
  /\ iters' = iters + 1
  /\ pc' = "return"
  /\ UNCHANGED <<wave, t, l, d, i, result, err>>
  /\ UNCHANGED bvars

\* line 19: wave[i].t < t, step right; line 22
StepRight ==
  /\ pc = "loop" /\ 0 < d
  /\ i < l
  /\ ~Found(wave, t, i)
  /\ GoesRight(wave, t, i)
  /\ reads' = reads \cup ReadsOfTest(wave, t, i)
  /\ i' = i + d
  /\ d' = ShiftRight1(d)
  /\ iters' = iters + 1
  /\ UNCHANGED <<wave, t, l, pc, result, err>>
  /\ UNCHANGED bvars

\* line 20: step left; line 22
StepLeft ==
  /\ pc = "loop" /\ 0 < d
  /\ i < l
  /\ ~Found(wave, t, i)
  /\ ~GoesRight(wave, t, i)
  /\ reads' = reads \cup ReadsOfTest(wave, t, i)
  /\ i' = i - d
  /\ d' = ShiftRight1(d)
  /\ iters' = iters + 1
  /\ UNCHANGED <<wave, t, l, pc, result, err>>
  /\ UNCHANGED bvars

\* a variant whose out-of-bounds branch steps right: i += d
StepOutOfBoundsRight ==
  /\ pc = "loop" /\ 0 < d
  /\ ~(i < l)
  /\ i' = i + d
  /\ d' = ShiftRight1(d)
  /\ iters' = iters + 1
  /\ UNCHANGED <<wave, t, l, pc, reads, result, err>>
  /\ UNCHANGED bvars

\* line 21: i is past the end, step left; line 22
StepOutOfBounds ==
  /\ pc = "loop" /\ 0 < d
  /\ ~(i < l)
  /\ i' = i - d
  /\ d' = ShiftRight1(d)
  /\ iters' = iters + 1
  /\ UNCHANGED <<wave, t, l, pc, reads, result, err>>
  /\ UNCHANGED bvars

\* line 16: the loop condition 0<d fails
LoopExit ==
  /\ pc = "loop" /\ ~(0 < d)
  /\ pc' = "return"
  /\ UNCHANGED <<wave, t, l, d, i, iters, reads, result, err>>
  /\ UNCHANGED bvars

\* line 23 with i inside the table
Return ==
  /\ pc = "return"
  /\ InRange(wave, i)
  /\ reads' = reads \cup {i}
  /\ result' = [i |-> i, we |-> At(wave, i)]
  /\ pc' = "done"
  /\ UNCHANGED <<wave, t, l, d, i, iters, err>>
  /\ UNCHANGED bvars

\* line 23 with i outside the table: wave[i] raises IndexError
ReturnIndexError ==
  /\ pc = "return"
  /\ ~InRange(wave, i)
  /\ reads' = reads \cup {i}
  /\ err' = "IndexError"
  /\ pc' = "raised"
  /\ UNCHANGED <<wave, t, l, d, i, iters, result>>
  /\ UNCHANGED bvars

Next ==
  \/ EnterEmpty
  \/ Enter
  \/ LoopBreak
  \/ StepRight
  \/ StepLeft
  \/ StepOutOfBounds
  \/ LoopExit
  \/ Return
  \/ ReturnIndexError

Init == SearchInit /\ BuildIdle

Spec == Init /\ [][Next]_vars

\* ----------------------------------------------------------- builders
Resolutions == (0 - NegRes)..MaxRes

Builders == {"acos_v8", "asin_v7", "acos"}

\* WaveEntry(): t and n are None until assigned
Unset == [t |-> 0, n |-> 0, set |-> FALSE]

WaveEntry(ph, amp) == [t |-> ph, n |-> amp, set |-> TRUE]

\* peak = resolution - 1
Peak(r) == r - 1

\* half = resolution/2 (Python 2: the floor)
HalfOf(r) == r \div 2

\* range(k) and [... for n in range(k)] are empty for k <= 0
RangeLen(k) == IF k > 0 THEN k ELSE 0

\* a variant that starts the amplitudes at 0
AcosFirstAmplitudeZero(r) == 0

\* n = peak - half
AcosFirstAmplitude(r) == Peak(r) - HalfOf(r)

\* n -= 1
AcosNextAmplitude(amp) == amp - 1

\* n = half
AsinFirstAmplitude(r) == HalfOf(r)

\* The resolutions up to 40 for which the IEEE-754 double `cosine`, after
\* peak subtractions of step = 2./peak from 1., is below -1.0
\* (-1.0000000000000002 for resolution 12): math.acos raises ValueError
\* at x = peak.
AcosOvershoot == {12, 18, 19, 23, 25, 30, 35, 36, 37, 40}

\* The resolutions up to 40 for which the double `sine`, after half-1
\* additions of step to half*step-1., is above 1.0 (1.0000000000000002
\* for resolution 6): math.asin raises ValueError at x = half-1.
AsinOvershoot == {6, 14, 30, 38, 40}

CosineOutOfDomain(r, k) == k = Peak(r) /\ r \in AcosOvershoot

SineOutOfDomain(r, k) == k = HalfOf(r) - 1 /\ r \in AsinOvershoot

\* theta*pi2_inv for theta = math.acos(cosine): 0 for cosine = 1., then not
\* below the phase before it, and within [0, 0.5]
AcosPhases(tb, k) == IF k = 0 THEN {0} ELSE {ph \in 0..Half : tb[k].t <= ph}

\* theta*pi2_inv for theta = math.asin(sine): not below the phase before
\* it, and within [0, 0.25]
AsinPhases(tb, k) == IF k = 0 THEN 0..Quarter ELSE {ph \in 0..Quarter : tb[k].t <= ph}

\* a variant that copies the phase without reflecting it
AcosMirrorNoFlip(e) == WaveEntry(e.t, e.n)

\* 1. - wave[2*peak-x].t, wave[2*peak-x].n
AcosMirror(e) == WaveEntry(Unit - e.t, e.n)

\* 0.5 - wave[peak-x-1].t, wave[peak-x-1].n
AsinMirror(e) == WaveEntry(Half - e.t, e.n)

\* a variant that copies the amplitude without inverting it
AsinMirror2SameAmplitude(r, e) == WaveEntry(Half + e.t, e.n)

\* 0.5 + wave[x-peak].t, peak - wave[x-peak].n
AsinMirror2(r, e) == WaveEntry(Half + e.t, Peak(r) - e.n)

BuildInit ==
  /\ builder \in Builders
  /\ resolution \in Resolutions
  /\ n = 0 /\ x = 0
  /\ table = <<>>
  /\ bpc = "call"
  /\ berr = "none"

Raise(e) ==
  /\ bpc' = "raised"
  /\ berr' = e
  /\ UNCHANGED <<builder, resolution, n, x, table>>

\* wave[k] = e, or IndexError when k is no index of the list
Store(k, e) ==
  IF InRange(table, k)
  THEN /\ table' = [table EXCEPT ![IF k >= 0 THEN k + 1 ELSE Len(table) + k + 1] = e]
       /\ UNCHANGED <<builder, resolution, bpc, berr>>
  ELSE /\ bpc' = "raised" /\ berr' = "IndexError"
       /\ UNCHANGED <<builder, resolution, table>>

\* step = 2./peak with peak = 0
acos_v8_ZeroDivision ==
  /\ builder = "acos_v8" /\ bpc = "call"
  /\ Peak(resolution) = 0
  /\ Raise("ZeroDivisionError")
  /\ UNCHANGED svars

\* lines 30-37
acos_v8_Enter ==
  /\ builder = "acos_v8" /\ bpc = "call"
  /\ Peak(resolution) # 0
  /\ table' = [k \in 1..RangeLen(2 * Peak(resolution)) |-> Unset]
  /\ n' = AcosFirstAmplitude(resolution)
  /\ x' = 0
  /\ bpc' = "first"
  /\ UNCHANGED <<builder, resolution, berr>>
  /\ UNCHANGED svars

\* line 39: math.acos(cosine) with cosine below -1
acos_v8_DomainError ==
  /\ builder = "acos_v8" /\ bpc = "first"
  /\ x < resolution
  /\ CosineOutOfDomain(resolution, x)
  /\ Raise("ValueError")
  /\ UNCHANGED svars

\* lines 38-43, one iteration
acos_v8_First ==
  /\ builder = "acos_v8" /\ bpc = "first"
  /\ x < resolution
  /\ ~CosineOutOfDomain(resolution, x)
  /\ \E ph \in AcosPhases(table, x) : Store(x, WaveEntry(ph, n))
  /\ n' = AcosNextAmplitude(n)
  /\ x' = x + 1
  /\ UNCHANGED svars

\* range(resolution) is exhausted; line 44 starts at x = resolution
acos_v8_FirstEnd ==
  /\ builder = "acos_v8" /\ bpc = "first"
  /\ ~(x < resolution)
  /\ x' = resolution
  /\ bpc' = "mirror"
  /\ UNCHANGED <<builder, resolution, n, table, berr>>
  /\ UNCHANGED svars

\* lines 44-46, one iteration
acos_v8_Mirror ==
  /\ builder = "acos_v8" /\ bpc = "mirror"
  /\ x < 2 * Peak(resolution)
  /\ IF ~InRange(table, 2 * Peak(resolution) - x)
     THEN Raise("IndexError")
     ELSE IF ~At(table, 2 * Peak(resolution) - x).set
     THEN Raise("TypeError")
     ELSE /\ Store(x, AcosMirror(At(table, 2 * Peak(resolution) - x)))
          /\ x' = x + 1
          /\ n' = n
  /\ UNCHANGED svars

\* line 47
acos_v8_Return ==
  /\ builder = "acos_v8" /\ bpc = "mirror"
  /\ ~(x < 2 * Peak(resolution))
  /\ bpc' = "done"
  /\ UNCHANGED <<builder, resolution, n, x, table, berr>>
  /\ UNCHANGED svars

\* step = 2./peak with peak = 0
asin_v7_ZeroDivision ==
  /\ builder = "asin_v7" /\ bpc = "call"
  /\ Peak(resolution) = 0
  /\ Raise("ZeroDivisionError")
  /\ UNCHANGED svars

\* lines 54-61
asin_v7_Enter ==
  /\ builder = "asin_v7" /\ bpc = "call"
  /\ Peak(resolution) # 0
  /\ table' = [k \in 1..RangeLen(2 * Peak(resolution)) |-> Unset]
  /\ n' = AsinFirstAmplitude(resolution)
  /\ x' = 0
  /\ bpc' = "first"
  /\ UNCHANGED <<builder, resolution, berr>>
  /\ UNCHANGED svars

\* line 63: math.asin(sine) with sine above 1
asin_v7_DomainError ==
  /\ builder = "asin_v7" /\ bpc = "first"
  /\ x < HalfOf(resolution)
  /\ SineOutOfDomain(resolution, x)
  /\ Raise("ValueError")
  /\ UNCHANGED svars

\* lines 62-67, one iteration
asin_v7_First ==
  /\ builder = "asin_v7" /\ bpc = "first"
  /\ x < HalfOf(resolution)
  /\ ~SineOutOfDomain(resolution, x)
  /\ \E ph \in AsinPhases(table, x) : Store(x, WaveEntry(ph, n))
  /\ n' = n + 1
  /\ x' = x + 1
  /\ UNCHANGED svars

\* range(half) is exhausted; line 68 starts at x = half
asin_v7_FirstEnd ==
  /\ builder = "asin_v7" /\ bpc = "first"
  /\ ~(x < HalfOf(resolution))
  /\ x' = HalfOf(resolution)
  /\ bpc' = "mirror"
  /\ UNCHANGED <<builder, resolution, n, table, berr>>
  /\ UNCHANGED svars

\* lines 68-70, one iteration
asin_v7_Mirror ==
  /\ builder = "asin_v7" /\ bpc = "mirror"
  /\ x < Peak(resolution)
  /\ IF ~InRange(table, Peak(resolution) - x - 1)
     THEN Raise("IndexError")
     ELSE IF ~At(table, Peak(resolution) - x - 1).set
     THEN Raise("TypeError")
     ELSE /\ Store(x, AsinMirror(At(table, Peak(resolution) - x - 1)))
          /\ x' = x + 1
          /\ n' = n
  /\ UNCHANGED svars

\* range(half, peak) is exhausted; line 71 starts at x = peak
asin_v7_MirrorEnd ==
  /\ builder = "asin_v7" /\ bpc = "mirror"
  /\ ~(x < Peak(resolution))
  /\ x' = Peak(resolution)
  /\ bpc' = "mirror2"
  /\ UNCHANGED <<builder, resolution, n, table, berr>>
  /\ UNCHANGED svars

\* lines 71-73, one iteration
asin_v7_Mirror2 ==
  /\ builder = "asin_v7" /\ bpc = "mirror2"
  /\ x < 2 * Peak(resolution)
  /\ IF ~InRange(table, x - Peak(resolution))
     THEN Raise("IndexError")
     ELSE IF ~At(table, x - Peak(resolution)).set
     THEN Raise("TypeError")
     ELSE /\ Store(x, AsinMirror2(resolution, At(table, x - Peak(resolution))))
          /\ x' = x + 1
          /\ n' = n
  /\ UNCHANGED svars

\* line 74
asin_v7_Return ==
  /\ builder = "asin_v7" /\ bpc = "mirror2"
  /\ ~(x < 2 * Peak(resolution))
  /\ bpc' = "done"
  /\ UNCHANGED <<builder, resolution, n, x, table, berr>>
  /\ UNCHANGED svars

\* giant_switch.py: step = 2./peak with peak = 0
acos_ZeroDivision ==
  /\ builder = "acos" /\ bpc = "call"
  /\ Peak(resolution) = 0
  /\ Raise("ZeroDivisionError")
  /\ UNCHANGED svars

\* giant_switch.py lines 10-19
acos_Enter ==
  /\ builder = "acos" /\ bpc = "call"
  /\ Peak(resolution) # 0
  /\ table' = <<>>
  /\ n' = AcosFirstAmplitude(resolution)
  /\ x' = 0
  /\ bpc' = "first"
  /\ UNCHANGED <<builder, resolution, berr>>
  /\ UNCHANGED svars

\* giant_switch.py line 21: math.acos(cosine) with cosine below -1
acos_DomainError ==
  /\ builder = "acos" /\ bpc = "first"
  /\ x < resolution
  /\ CosineOutOfDomain(resolution, x)
  /\ Raise("ValueError")
  /\ UNCHANGED svars

\* giant_switch.py lines 20-24, one iteration
acos_First ==
  /\ builder = "acos" /\ bpc = "first"
  /\ x < resolution
  /\ ~CosineOutOfDomain(resolution, x)
  /\ \E ph \in AcosPhases(table, x) : table' = Append(table, WaveEntry(ph, n))
  /\ n' = AcosNextAmplitude(n)
  /\ x' = x + 1
  /\ UNCHANGED <<builder, resolution, bpc, berr>>
  /\ UNCHANGED svars

\* range(resolution) is exhausted; line 25 starts at x = resolution
acos_FirstEnd ==
  /\ builder = "acos" /\ bpc = "first"
  /\ ~(x < resolution)
  /\ x' = resolution
  /\ bpc' = "mirror"
  /\ UNCHANGED <<builder, resolution, n, table, berr>>
  /\ UNCHANGED svars

\* giant_switch.py lines 25-27, one iteration; wave_len = 2*peak
acos_Mirror ==
  /\ builder = "acos" /\ bpc = "mirror"
  /\ x < 2 * Peak(resolution) + 1
  /\ IF ~InRange(table, 2 * Peak(resolution) - x)
     THEN Raise("IndexError")
     ELSE /\ table' = Append(table, AcosMirror(At(table, 2 * Peak(resolution) - x)))
          /\ x' = x + 1
          /\ UNCHANGED <<builder, resolution, n, bpc, berr>>
  /\ UNCHANGED svars

\* giant_switch.py line 28
acos_Return ==
  /\ builder = "acos" /\ bpc = "mirror"
  /\ ~(x < 2 * Peak(resolution) + 1)
  /\ bpc' = "done"
  /\ UNCHANGED <<builder, resolution, n, x, table, berr>>
  /\ UNCHANGED svars

BuildNext ==
  \/ acos_v8_ZeroDivision
  \/ acos_v8_Enter
  \/ acos_v8_DomainError
  \/ acos_v8_First
  \/ acos_v8_FirstEnd
  \/ acos_v8_Mirror
  \/ acos_v8_Return
  \/ asin_v7_ZeroDivision
  \/ asin_v7_Enter
  \/ asin_v7_DomainError
  \/ asin_v7_First
  \/ asin_v7_FirstEnd
  \/ asin_v7_Mirror
  \/ asin_v7_MirrorEnd
  \/ asin_v7_Mirror2
  \/ asin_v7_Return
  \/ acos_ZeroDivision
  \/ acos_Enter
  \/ acos_DomainError
  \/ acos_First
  \/ acos_FirstEnd
  \/ acos_Mirror
  \/ acos_Return

BuildStart == BuildInit /\ SearchIdle

BuildSpec == BuildStart /\ [][BuildNext]_vars

\* ------------------------------------------------ claims on binsearch_v2
IsSorted(w) == \A k \in 1..(Len(w) - 1) : w[k] <= w[k + 1]

HasTie(w) == \E k \in 1..(Len(w) - 1) : w[k] = w[k + 1]

Last(w) == w[Len(w)]

Returned == pc \in {"done", "raised"}

\* the least 0-based index whose phase is at least q
FirstAtLeast(w, q) ==
  CHOOSE k \in 0..(Len(w) - 1) :
    /\ q <= w[k + 1]
    /\ \A j \in 0..(k - 1) : w[j + 1] < q

\* the midpoints (time_list[n]+time_list[n+1])/2. that are whole ticks
Midpoints(w) ==
  {(w[k] + w[k + 1]) \div 2 : k \in {j \in 1..(Len(w) - 1) : (w[j] + w[j + 1]) % 2 = 0}}

Ticks(w) == {w[k] : k \in 1..Len(w)}

\* C1: on a non-empty table sorted by non-decreasing phase and a query t not
\* above the last phase, binsearch_v2 returns (i, wave[i]) with t <= wave[i].t
\* and (i == 0 or wave[i-1].t < t).
C1_BoundCorrect ==
  (Returned /\ Len(wave) > 0 /\ IsSorted(wave) /\ t <= Last(wave)) =>
    /\ pc = "done"
    /\ result.i \in 0..(Len(wave) - 1)
    /\ result.we = wave[result.i + 1]
    /\ t <= wave[result.i + 1]
    /\ (result.i = 0 \/ wave[result.i] < t)

\* a sorted table of a length that is no power of two, with a tie, searched
\* at a midpoint that is no tick of the table
C1_Witness ==
  /\ pc = "done"
  /\ Len(wave) = 6 /\ IsSorted(wave) /\ HasTie(wave)
  /\ t \in Midpoints(wave) /\ t \notin Ticks(wave)
  /\ result.i = 3

\* C2 as stated: on a non-empty sorted table, the query t equal to the last
\* phase returns the last index len(wave)-1.
C2_LastIndexReturned ==
  (Returned /\ Len(wave) > 0 /\ IsSorted(wave) /\ t = Last(wave)) =>
    (pc = "done" /\ result.i = Len(wave) - 1)

\* C2 amended: on a non-empty sorted table, the query t equal to the last
\* phase returns an index inside the table, the first one whose phase equals
\* the last phase; it is len(wave)-1 when the last phase is above the one
\* before it.
C2_FirstOfLastPhase ==
  (Returned /\ Len(wave) > 0 /\ IsSorted(wave) /\ t = Last(wave)) =>
    /\ pc = "done"
    /\ result.i \in 0..(Len(wave) - 1)
    /\ result.i = FirstAtLeast(wave, Last(wave))
    /\ result.we = Last(wave)
    /\ ((Len(wave) = 1 \/ wave[Len(wave) - 1] < Last(wave)) => result.i = Len(wave) - 1)

C2_Witness ==
  /\ pc = "done"
  /\ Len(wave) = 6 /\ IsSorted(wave) /\ t = Last(wave)
  /\ wave[5] < wave[6]
  /\ result.i = 5

\* the first step is the power of two d with l <= d < 2*l; the loop body has
\* run at most ceil(log2(l)) + 1 times; a call that has not ended can go on
C7_StepBound ==
  /\ (pc = "loop" /\ iters = 0) =>
        /\ \E k \in 0..l : d = Pow2(k)
        /\ l <= d /\ d < 2 * l
  /\ (Len(wave) > 0 /\ pc # "call") => iters <= CeilLog2From(Len(wave), 0) + 1
  /\ ~Returned => ENABLED Next

\* an execution of the loop body that does not break halves d
C7_Halved == (iters' = iters + 1 /\ pc' = "loop") => (d' < d /\ 2 * d' <= d /\ d < 2 * d' + 2)

C8_EmptyRejected ==
  (Len(wave) = 0 /\ pc # "call") =>
    /\ pc = "raised"
    /\ err = "ValueError"
    /\ iters = 0
    /\ reads = {}
    /\ result = NoResult

C8_Witness == Len(wave) = 0 /\ pc = "raised" /\ err = "ValueError"

EvenTable == Len(wave) > 0 /\ Len(wave) % 2 = 0

C9_InBounds ==
  EvenTable =>
    /\ i >= 0
    /\ reads \subseteq 0..(Len(wave) - 1)
    /\ (pc = "return" => i \in 0..(Len(wave) - 1))
    /\ pc # "raised"
    /\ (pc = "done" => result.i \in 0..(Len(wave) - 1))

C9_StepsLeft ==
  (EvenTable /\ pc = "loop" /\ 0 < d /\ ~(i < l)) => i' < i

\* C9: on a non-empty table of even length and any query t, i never goes
\* below 0, every subscript is a valid non-negative index, the returned index
\* is in 0..len(wave)-1 (no IndexError), and the out-of-bounds branch steps i
\* left.
C9_EvenSafe == []C9_InBounds /\ [][C9_StepsLeft]_vars

\* a table of length 6 searched for a t above every phase: i runs past the
\* end and comes back to the last index
C9_Witness ==
  /\ pc = "done"
  /\ Len(wave) = 6
  /\ \A k \in 1..6 : wave[k] < t
  /\ result.i = 5
  /\ reads = {0, 4, 5}

\* -------------------------------------------------- claims on the builders
Built == bpc \in {"done", "raised"}

AllAssigned(tb) == \A k \in 1..Len(tb) : tb[k].set

PhaseSorted(tb) == \A k \in 1..(Len(tb) - 1) : tb[k].t <= tb[k + 1].t

\* C3 as stated: for every resolution >= 2 every builder returns a table of
\* exactly 2*(resolution-1) entries, each with a phase and an amplitude.
C3_FullTable ==
  (Built /\ resolution >= 2) =>
    /\ bpc = "done"
    /\ Len(table) = 2 * (resolution - 1)
    /\ AllAssigned(table)

\* C4 as stated: a builder called with a resolution below 2 ends in an error
\* and returns no table.
C4_InvalidRejected ==
  (Built /\ resolution < 2) => (bpc = "raised" /\ berr # "none")

\* C5 as stated: the cosine builders called with resolution 4 give the first
\* four samples the amplitudes 0, 1, 2, 3, and the reflected samples copy the
\* amplitudes of their mirror indices.
CosineBuilt4 == builder \in {"acos_v8", "acos"} /\ resolution = 4 /\ Built

MirrorsCopied ==
  \A k \in 4..(Len(table) - 1) : table[k + 1].n = table[6 - k + 1].n

C5_Amplitudes0123 ==
  CosineBuilt4 =>
    /\ bpc = "done"
    /\ Len(table) >= 4
    /\ <<table[1].n, table[2].n, table[3].n, table[4].n>> = <<0, 1, 2, 3>>
    /\ MirrorsCopied

\* C5 amended: the cosine builders called with resolution 4 give the first
\* four samples the amplitudes 1, 0, -1, -2 (n starts at peak - half = 1 and
\* is decremented), and the reflected samples copy the amplitudes of their
\* mirror indices.
C5_AmplitudesDecrement ==
  CosineBuilt4 =>
    /\ bpc = "done"
    /\ Len(table) >= 4
    /\ <<table[1].n, table[2].n, table[3].n, table[4].n>> = <<1, 0, 0 - 1, 0 - 2>>
    /\ MirrorsCopied

C5_Witness ==
  /\ builder = "acos_v8" /\ resolution = 4 /\ bpc = "done"
  /\ Len(table) = 6
  /\ table[5].n = 0 - 1 /\ table[6].n = 0

\* C6: for every resolution >= 2 the table built by acos_v8 or asin_v7 is
\* sorted by non-decreasing phase, across the reflection seams too.
C6_Sorted ==
  (bpc = "done" /\ builder \in {"acos_v8", "asin_v7"} /\ resolution >= 2) =>
    PhaseSorted(table)

\* a sine table with the quarter, half and full-cycle seams and a quarter
\* segment that rises
C6_Witness ==
  /\ bpc = "done" /\ builder = "asin_v7" /\ resolution = 5
  /\ Len(table) = 8
  /\ table[1].t < table[2].t
  /\ table[2].t < table[3].t /\ table[4].t = table[5].t

\* C10: for every resolution >= 2 every amplitude of the table built by
\* asin_v7 is in 0..peak, and wave[x+peak].n + wave[x].n = peak for every x
\* in 0..peak-1.
C10_SineAmplitudes ==
  (bpc = "done" /\ builder = "asin_v7" /\ resolution >= 2) =>
    /\ Len(table) = 2 * Peak(resolution)
    /\ \A k \in 1..Len(table) : table[k].n \in 0..Peak(resolution)
    /\ \A k \in 0..(Peak(resolution) - 1) :
         table[k + Peak(resolution) + 1].n + table[k + 1].n = Peak(resolution)

C10_Witness ==
  /\ bpc = "done" /\ builder = "asin_v7" /\ resolution = 7
  /\ table[1].n = 3 /\ table[7].n = 3

====
